---- MODULE Spec2Model ----
(***************************************************************************)
(* Model of src/resume_optimizer/core.py: the ResumeOptimizerCore engine.  *)
(* Documents are character strings; the ATS scorer, the markup parser and  *)
(* serializer, the skills-heading augmentation, the diagnostics gate, the  *)
(* two network routines and the sha256 stand-in are modelled as the code   *)
(* computes them.                                                           *)
(***************************************************************************)
EXTENDS Integers, Sequences, FiniteSets, TLC

(***************************************************************************)
(* Text primitives (Python str / re semantics on ASCII text).              *)
(***************************************************************************)

UpperAlpha == "ABCDEFGHIJKLMNOPQRSTUVWXYZ"
LowerAlpha == "abcdefghijklmnopqrstuvwxyz"
Digits == "0123456789"

CharAt(s, i) == IF i >= 1 /\ i <= Len(s) THEN SubSeq(s, i, i) ELSE ""

CharsOf(s) == {SubSeq(s, i, i) : i \in 1..Len(s)}

UpperChars == CharsOf(UpperAlpha)
LowerChars == CharsOf(LowerAlpha)
DigitChars == CharsOf(Digits)
LetterChars == UpperChars \cup LowerChars

\* position of character c in string s, 0 when absent
IndexIn(s, c) ==
    IF \E i \in 1..Len(s) : SubSeq(s, i, i) = c
    THEN CHOOSE i \in 1..Len(s) : SubSeq(s, i, i) = c
    ELSE 0

LowerTable == [c \in UpperChars |-> CharAt(LowerAlpha, IndexIn(UpperAlpha, c))]
UpperTable == [c \in LowerChars |-> CharAt(UpperAlpha, IndexIn(LowerAlpha, c))]

LowerChar(c) == IF c \in UpperChars THEN LowerTable[c] ELSE c
UpperChar(c) == IF c \in LowerChars THEN UpperTable[c] ELSE c

RECURSIVE StrLower(_)
StrLower(s) ==
    IF Len(s) = 0 THEN ""
    ELSE IF Len(s) = 1 THEN LowerChar(s)
    ELSE LET h == Len(s) \div 2
         IN StrLower(SubSeq(s, 1, h)) \o StrLower(SubSeq(s, h + 1, Len(s)))

RECURSIVE StrUpper(_)
StrUpper(s) ==
    IF Len(s) = 0 THEN ""
    ELSE IF Len(s) = 1 THEN UpperChar(s)
    ELSE LET h == Len(s) \div 2
         IN StrUpper(SubSeq(s, 1, h)) \o StrUpper(SubSeq(s, h + 1, Len(s)))

\* Python: sub in s
Contains(s, sub) ==
    \E i \in 1..(Len(s) - Len(sub) + 1) : SubSeq(s, i, i + Len(sub) - 1) = sub

\* first position of sub in s at or after position from, 0 when absent
FindFrom(s, sub, from) ==
    LET n == Len(sub)
        last == Len(s) - n + 1
    IN IF \E i \in from..last : SubSeq(s, i, i + n - 1) = sub
       THEN CHOOSE i \in from..last :
               /\ SubSeq(s, i, i + n - 1) = sub
               /\ \A j \in from..(i - 1) : SubSeq(s, j, j + n - 1) # sub
       ELSE 0

\* regex \w
WordChars == LetterChars \cup DigitChars \cup {"_"}

IsWordChar(c) == c \in WordChars

\* regex \s
SpaceChars == {" ", "\n", "\t", "\r"}

IsSpace(c) == c \in SpaceChars

\* regex \b between positions p - 1 and p of s
WordBoundary(s, p) == IsWordChar(CharAt(s, p - 1)) # IsWordChar(CharAt(s, p))

\* re.search(rf'\b{re.escape(kw)}\b', text, re.I)
SearchWord(kw, text) ==
    LET lk == StrLower(kw)
        n  == Len(kw)
    IN \E i \in 1..(Len(text) - n + 1) :
          /\ LowerChar(SubSeq(text, i, i)) = SubSeq(lk, 1, 1)
          /\ StrLower(SubSeq(text, i, i + n - 1)) = lk
          /\ WordBoundary(text, i)
          /\ WordBoundary(text, i + n)

\* re.compile(pat, re.I).search(s) for a pattern that is an alternation of literals
SearchAnyI(alternatives, s) ==
    LET ls == StrLower(s)
    IN \E a \in alternatives : Contains(ls, StrLower(a))

Min(a, b) == IF a <= b THEN a ELSE b

(***************************************************************************)
(* calculate_ats_score                                                     *)
(***************************************************************************)

KEYWORDS == <<"Python", "project management", "machine learning", "SQL",
              "team leadership">>

SCORE_MAP == [kw \in {KEYWORDS[i] : i \in 1..Len(KEYWORDS)} |-> 20]

BaseScore == 40

MaxScore == 100

\* the for loop of calculate_ats_score from keyword index i with running score
RECURSIVE ScoreLoop(_, _, _)
ScoreLoop(text, i, score) ==
    IF i > Len(KEYWORDS) THEN score
    ELSE ScoreLoop(text, i + 1,
                   IF SearchWord(KEYWORDS[i], text)
                   THEN score + SCORE_MAP[KEYWORDS[i]]
                   ELSE score)

calculate_ats_score_unclamped(text) == ScoreLoop(text, 1, BaseScore)

calculate_ats_score(text) == Min(ScoreLoop(text, 1, BaseScore), MaxScore)

(***************************************************************************)
(* BeautifulSoup(text, 'html.parser'): tokens, tree, search, serializer.   *)
(* A node is a record; kind "text" carries text, kind "tag" carries name,  *)
(* attrs (the raw attribute text, " class=\"c\"") and kids.  Documents are *)
(* drawn from markup in which every "<" opens a complete tag, text holds   *)
(* no "&" or ">", attributes are already double-quoted and no void element *)
(* occurs, so entity substitution and attribute re-quoting do not arise.   *)
(***************************************************************************)

TextNode(t) == [kind |-> "text", name |-> "", attrs |-> "", text |-> t, kids |-> <<>>]

TagNode(n, a, k) == [kind |-> "tag", name |-> n, attrs |-> a, text |-> "", kids |-> k]

DataTok(t) == [kind |-> "data", name |-> "", attrs |-> "", text |-> t]

\* the token of the text between "<" and ">"
TagTok(inner) ==
    IF CharAt(inner, 1) = "/"
    THEN [kind |-> "end", name |-> StrLower(SubSeq(inner, 2, Len(inner))),
          attrs |-> "", text |-> ""]
    ELSE LET sp == FindFrom(inner, " ", 1)
         IN IF sp = 0
            THEN [kind |-> "start", name |-> StrLower(inner), attrs |-> "", text |-> ""]
            ELSE [kind |-> "start", name |-> StrLower(SubSeq(inner, 1, sp - 1)),
                  attrs |-> SubSeq(inner, sp, Len(inner)), text |-> ""]

\* html.parser's goahead: the markup as start tags, end tags and data
RECURSIVE Tokenize(_)
Tokenize(s) ==
    IF Len(s) = 0 THEN <<>>
    ELSE LET lt == FindFrom(s, "<", 1)
         IN IF lt = 0 THEN <<DataTok(s)>>
            ELSE IF lt > 1
            THEN <<DataTok(SubSeq(s, 1, lt - 1))>> \o Tokenize(SubSeq(s, lt, Len(s)))
            ELSE LET gt == FindFrom(s, ">", 2)
                     c2 == CharAt(s, 2)
                 IN IF gt = 0 \/ ~(c2 \in LetterChars \cup {"/"})
                    THEN <<DataTok(s)>>
                    ELSE <<TagTok(SubSeq(s, 2, gt - 1))>>
                         \o Tokenize(SubSeq(s, gt + 1, Len(s)))

AllSpace(t) == \A i \in 1..Len(t) : IsSpace(SubSeq(t, i, i))

\* BeautifulSoup.endData: a whitespace-only string collapses to "\n" or " "
EndData(t) ==
    IF AllSpace(t) THEN (IF Contains(t, "\n") THEN "\n" ELSE " ") ELSE t

\* close the top element of the stack of open elements into its parent
PopTag(stack) ==
    LET n   == Len(stack)
        top == stack[n]
        par == stack[n - 1]
    IN SubSeq(stack, 1, n - 2)
       \o <<[par EXCEPT !.kids = Append(par.kids, top)]>>

\* BeautifulSoup._popToTag: close elements down to the most recent one named nm
RECURSIVE PopToTag(_, _)
PopToTag(stack, nm) ==
    IF Len(stack) <= 1 THEN stack
    ELSE IF stack[Len(stack)].name = nm THEN PopTag(stack)
    ELSE PopToTag(PopTag(stack), nm)

RECURSIVE PopAll(_)
PopAll(stack) == IF Len(stack) <= 1 THEN stack ELSE PopAll(PopTag(stack))

\* the tree builder: feed tokens i.. to the stack of open elements
RECURSIVE Build(_, _, _)
Build(toks, i, stack) ==
    IF i > Len(toks) THEN PopAll(stack)[1].kids
    ELSE LET t == toks[i]
             n == Len(stack)
         IN IF t.kind = "data"
            THEN Build(toks, i + 1,
                   [stack EXCEPT ![n].kids = Append(@, TextNode(EndData(t.text)))])
            ELSE IF t.kind = "start"
            THEN Build(toks, i + 1, Append(stack, TagNode(t.name, t.attrs, <<>>)))
            ELSE IF \E j \in 2..n : stack[j].name = t.name
            THEN Build(toks, i + 1, PopToTag(stack, t.name))
            ELSE Build(toks, i + 1, stack)

\* BeautifulSoup(text, 'html.parser'): the children of the document root
Parse(text) == Build(Tokenize(text), 1, <<TagNode("[document]", "", <<>>)>>)

\* str(soup)
RECURSIVE Serialize(_)
Serialize(kids) ==
    IF Len(kids) = 0 THEN ""
    ELSE LET h == kids[1]
         IN (IF h.kind = "text" THEN h.text
             ELSE "<" \o h.name \o h.attrs \o ">" \o Serialize(h.kids)
                  \o "</" \o h.name \o ">")
            \o Serialize(Tail(kids))

\* Tag.get_text(): the strings below the nodes, concatenated
RECURSIVE GetText(_)
GetText(kids) ==
    IF Len(kids) = 0 THEN ""
    ELSE LET h == kids[1]
         IN (IF h.kind = "text" THEN h.text ELSE GetText(h.kids))
            \o GetText(Tail(kids))

\* Tag.string: the single string below a tag; "none" marks None
NoString == [some |-> FALSE, val |-> ""]

RECURSIVE TagString(_)
TagString(node) ==
    IF Len(node.kids) # 1 THEN NoString
    ELSE IF node.kids[1].kind = "text"
    THEN [some |-> TRUE, val |-> node.kids[1].text]
    ELSE TagString(node.kids[1])

\* the paths (child indices from the root) of all tags, in document order
RECURSIVE TagPaths(_, _, _)
TagPaths(kids, i, prefix) ==
    IF i > Len(kids) THEN <<>>
    ELSE (IF kids[i].kind = "tag"
          THEN <<Append(prefix, i)>> \o TagPaths(kids[i].kids, 1, Append(prefix, i))
          ELSE <<>>)
         \o TagPaths(kids, i + 1, prefix)

RECURSIVE NodeAt(_, _)
NodeAt(kids, path) ==
    IF Len(path) = 1 THEN kids[path[1]]
    ELSE NodeAt(kids[path[1]].kids, Tail(path))

RECURSIVE ReplaceAt(_, _, _)
ReplaceAt(kids, path, node) ==
    IF Len(path) = 1 THEN [kids EXCEPT ![path[1]] = node]
    ELSE [kids EXCEPT ![path[1]].kids = ReplaceAt(@, Tail(path), node)]

\* the first of the tags (paths in document order) whose index is in hits,
\* <<>> when none
FirstTag(paths, hits) ==
    IF hits = {} THEN <<>>
    ELSE paths[CHOOSE i \in hits : \A j \in hits : i <= j]

HeadingLabels == {"Skills", "Expertise", "Proficiencies"}

\* the filter of soup.find(['h2', 'h3'], string=re.compile(..., re.I))
IsSkillsHeader(node) ==
    /\ node.name \in {"h2", "h3"}
    /\ TagString(node).some
    /\ SearchAnyI(HeadingLabels, TagString(node).val)

FindSkillsHeader(kids) ==
    LET paths == TagPaths(kids, 1, <<>>)
    IN FirstTag(paths, {i \in 1..Len(paths) : IsSkillsHeader(NodeAt(kids, paths[i]))})

IsBody(node) == node.name = "body"

\* soup.body
FindBody(kids) ==
    LET paths == TagPaths(kids, 1, <<>>)
    IN FirstTag(paths, {i \in 1..Len(paths) : IsBody(NodeAt(kids, paths[i]))})

(***************************************************************************)
(* optimize_keywords: the keyword tables and the skills-heading edit.      *)
(***************************************************************************)

\* _get_base_industry_keywords
BaseIndustryKeywords ==
    [tech |-> <<"BASIC_AI", "BASIC_CLOUD">>, finance |-> <<"BASIC_ROI">>]

\* industry factors in hundredths: 0.5 -> 50, 0.95 -> 95, the 0.8 threshold -> 80
DefaultFactor == 50

VerifiedFactor == 95

FactorThreshold == 80

RECURSIVE MapUpper(_)
MapUpper(kws) ==
    IF Len(kws) = 0 THEN <<>> ELSE <<StrUpper(kws[1])>> \o MapUpper(Tail(kws))

\* enhanced_keywords["tech"]
EnhancedTech(factor) ==
    IF factor > FactorThreshold
    THEN MapUpper(BaseIndustryKeywords.tech)
    ELSE BaseIndustryKeywords.tech

KeywordSpan(kw) == TagNode("span", " class=\"optimized-keyword\"", <<TextNode(kw)>>)

\* f"{industry_factor:.2f}" for a factor below 1
FormatFactor(f) ==
    "0." \o CharAt(Digits, (f \div 10) + 1) \o CharAt(Digits, (f % 10) + 1)

FactorSpan(f) ==
    TagNode("span", " class=\"industry-factor\"",
            <<TextNode(" (Industry Relevance: " \o FormatFactor(f) \o ")")>>)

\* one pass of the loop body of "for kw in self.added_keywords"
AppendKeyword(header, kw) ==
    IF ~Contains(GetText(header.kids), kw)
    THEN [header EXCEPT !.kids =
            (IF Len(@) > 0 THEN Append(@, TextNode(", ")) ELSE @)
            \o <<KeywordSpan(kw)>>]
    ELSE header

RECURSIVE AppendKeywords(_, _, _)
AppendKeywords(header, kws, i) ==
    IF i > Len(kws) THEN header
    ELSE AppendKeywords(AppendKeyword(header, kws[i]), kws, i + 1)

NewSkillsHeader == TagNode("h2", "", <<TextNode("Professional Skills")>>)

\* Tag.insert(0, node) on the tag at path
InsertFirst(kids, path, node) ==
    LET tag == NodeAt(kids, path)
    IN ReplaceAt(kids, path, [tag EXCEPT !.kids = <<node>> \o @])

\* the heading after the keyword loop and the industry-factor span
EditedHeader(header, kws, factor) ==
    LET h1 == AppendKeywords(header, kws, 1)
    IN IF factor > FactorThreshold
       THEN [h1 EXCEPT !.kids = Append(@, FactorSpan(factor))]
       ELSE h1

\* optimize_keywords from the BeautifulSoup call to "return str(soup)"
AugmentDocument(text, kws, factor) ==
    LET soup == Parse(text)
        hp   == FindSkillsHeader(soup)
        bp   == FindBody(soup)
    IN IF hp # <<>>
       THEN Serialize(ReplaceAt(soup, hp, EditedHeader(NodeAt(soup, hp), kws, factor)))
       ELSE IF bp # <<>>
       THEN Serialize(InsertFirst(soup, bp, EditedHeader(NewSkillsHeader, kws, factor)))
       ELSE Serialize(soup)

\* len(text.split()): the number of maximal runs of non-space characters
WordCount(s) ==
    Cardinality({i \in 1..Len(s) :
                    /\ ~IsSpace(SubSeq(s, i, i))
                    /\ (i = 1 \/ IsSpace(SubSeq(s, i - 1, i - 1)))})

\* round(n / 100, 1) in tenths, for n < 100: the float n / 100 lies above the
\* midpoint exactly for these n among those ending in 5
RoundsUpAtHalf == {5, 45, 55, 65, 75}

KeywordDensity(n) ==
    IF n % 10 > 5 \/ n \in RoundsUpAtHalf THEN (n \div 10) + 1 ELSE n \div 10

competitive_analysis(text) ==
    [keyword_density |-> KeywordDensity(WordCount(text)),
     readability_index |-> 78,
     section_completeness |-> 95]

(***************************************************************************)
(* _extract_contact_metadata: the two re.search calls (leftmost match,     *)
(* greedy quantifiers, backtracking order).  None is modelled as "".       *)
(***************************************************************************)

EmailLocalChars == LetterChars \cup DigitChars \cup {".", "_", "%", "+", "-"}
EmailDomainChars == LetterChars \cup DigitChars \cup {".", "-"}
EmailTldChars == LetterChars \cup {"|"}

AllIn(s, a, b, chars) == \A i \in a..b : SubSeq(s, i, i) \in chars

\* <<start, dot, end>> of every match of the e-mail pattern in s, by "@" position
EmailMatchesAt(s, at) ==
    LET starts == {a \in 1..(at - 1) :
                      WordBoundary(s, a) /\ AllIn(s, a, at - 1, EmailLocalChars)}
        dots   == {d \in (at + 2)..Len(s) :
                      SubSeq(s, d, d) = "." /\ AllIn(s, at + 1, d - 1, EmailDomainChars)}
        ends(d) == {e \in (d + 2)..Len(s) :
                      AllIn(s, d + 1, e, EmailTldChars) /\ WordBoundary(s, e + 1)}
    IN IF starts = {} THEN {}
       ELSE UNION {{<<a, d, e>> : a \in starts, e \in ends(d)} : d \in dots}

EmailMatches(s) ==
    UNION {EmailMatchesAt(s, at) : at \in {i \in 1..Len(s) : SubSeq(s, i, i) = "@"}}

\* leftmost start, then the longest domain, then the longest top-level part
SearchEmail(s) ==
    LET ms == EmailMatches(s)
    IN IF ms = {} THEN ""
       ELSE LET best == CHOOSE m \in ms : \A o \in ms :
                          \/ m[1] < o[1]
                          \/ m[1] = o[1] /\ m[2] > o[2]
                          \/ m[1] = o[1] /\ m[2] = o[2] /\ m[3] >= o[3]
            IN SubSeq(s, best[1], best[3])

IsDigits(s, p, n) ==
    p + n - 1 <= Len(s) /\ \A i \in p..(p + n - 1) : SubSeq(s, i, i) \in DigitChars

PhoneSeps == {" ", "\n", "\t", "\r", ".", "-"}

\* how the optional parts are taken: g country digits (0: no group), gs the
\* space after them, lp "(", rp ")", s1 and s2 the separators
PhoneChoices ==
    {c \in [g : 0..2, gs : 0..1, lp : 0..1, rp : 0..1, s1 : 0..1, s2 : 0..1] :
        c.g = 0 => c.gs = 0}

\* the end of the phone pattern matched at start with choice c, 0 when it fails
PhoneEnd(s, start, c) ==
    LET p1 == IF c.g = 0 THEN start ELSE start + 1 + c.g
        p2 == p1 + c.gs
        p3 == p2 + c.lp
        p4 == p3 + 3
        p5 == p4 + c.rp
        p6 == p5 + c.s1
        p7 == p6 + 3
        p8 == p7 + c.s2
        p9 == p8 + 4
    IN IF /\ WordBoundary(s, start)
          /\ (c.g > 0 => CharAt(s, start) = "+" /\ IsDigits(s, start + 1, c.g))
          /\ (c.gs = 1 => IsSpace(CharAt(s, p1)) /\ CharAt(s, p1) # "")
          /\ (c.lp = 1 => CharAt(s, p2) = "(")
          /\ IsDigits(s, p3, 3)
          /\ (c.rp = 1 => CharAt(s, p4) = ")")
          /\ (c.s1 = 1 => CharAt(s, p5) \in PhoneSeps)
          /\ IsDigits(s, p6, 3)
          /\ (c.s2 = 1 => CharAt(s, p7) \in PhoneSeps)
          /\ IsDigits(s, p8, 4)
          /\ WordBoundary(s, p9)
       THEN p9 - 1
       ELSE 0

\* the backtracking order: greedy choices first, earlier parts most significant
PhoneRank(c) ==
    ((((((2 - c.g) * 2 + (1 - c.gs)) * 2 + (1 - c.lp)) * 2 + (1 - c.rp)) * 2
        + (1 - c.s1)) * 2) + (1 - c.s2)

SearchPhone(s) ==
    LET starts == {i \in 1..Len(s) :
                      /\ SubSeq(s, i, i) \in DigitChars \cup {"+", "("}
                      /\ WordBoundary(s, i)}
        ms == {m \in starts \X PhoneChoices : PhoneEnd(s, m[1], m[2]) > 0}
    IN IF ms = {} THEN ""
       ELSE LET best == CHOOSE m \in ms : \A o \in ms :
                          \/ m[1] < o[1]
                          \/ m[1] = o[1] /\ PhoneRank(m[2]) <= PhoneRank(o[2])
            IN SubSeq(s, best[1], PhoneEnd(s, best[1], best[2]))

_extract_contact_metadata(text) == <<SearchEmail(text), SearchPhone(text)>>

(***************************************************************************)
(* The module-level sha256 stand-in, on 32-bit words kept as bit sequences *)
(* (most significant bit first).                                           *)
(***************************************************************************)

\* ASCII 32..95 and 97..126 in code order (a backquote, 96, occurs in no input)
AsciiLow == " !\"#$%&'()*+,-./0123456789:;<=>?@ABCDEFGHIJKLMNOPQRSTUVWXYZ[\\]^_"

AsciiHigh == "abcdefghijklmnopqrstuvwxyz{|}~"

\* input_string.encode('utf-8'), one byte per ASCII character
Ord(c) ==
    IF c = "\n" THEN 10 ELSE IF c = "\t" THEN 9 ELSE IF c = "\r" THEN 13
    ELSE IF IndexIn(AsciiLow, c) > 0 THEN 31 + IndexIn(AsciiLow, c)
    ELSE 96 + IndexIn(AsciiHigh, c)

RECURSIVE Bits(_, _)
Bits(n, w) == IF w = 0 THEN <<>> ELSE Append(Bits(n \div 2, w - 1), n % 2)

\* data.ljust(64, b'\x00')[:64]
PaddedByte(s, i) == IF i <= Len(s) THEN Ord(SubSeq(s, i, i)) ELSE 0

\* struct.unpack('>16I', data)[i], i from 0
InputWord(s, i) ==
    Bits(PaddedByte(s, 4 * i + 1), 8) \o Bits(PaddedByte(s, 4 * i + 2), 8)
    \o Bits(PaddedByte(s, 4 * i + 3), 8) \o Bits(PaddedByte(s, 4 * i + 4), 8)

\* ((a << 7) | (a >> 25)) & 0xFFFFFFFF
RotL7(a) == SubSeq(a, 8, 32) \o SubSeq(a, 1, 7)

Xor(a, b) == [k \in 1..32 |-> (a[k] + b[k]) % 2]

\* 0xA5A5A5A5
MixConstant == Bits(165, 8) \o Bits(165, 8) \o Bits(165, 8) \o Bits(165, 8)

\* c = b ^ (0xA5A5A5A5 ^ i)
MixWord(s, i) == Xor(RotL7(InputWord(s, i)), Xor(MixConstant, Bits(i, 32)))

HexDigits == "0123456789abcdef"

\* f'{r:08x}'
Hex8(w) ==
    LET nib(k) == 8 * w[4 * k + 1] + 4 * w[4 * k + 2] + 2 * w[4 * k + 3] + w[4 * k + 4]
        d(k)   == CharAt(HexDigits, nib(k) + 1)
    IN d(0) \o d(1) \o d(2) \o d(3) \o d(4) \o d(5) \o d(6) \o d(7)

RECURSIVE HexWords(_, _, _)
HexWords(s, i, n) ==
    IF i >= n THEN "" ELSE Hex8(MixWord(s, i)) \o HexWords(s, i + 1, n)

sha256_full(input_string) == HexWords(input_string, 0, 16)

\* ''.join(f'{r:08x}' for r in result[:2])
sha256(input_string) == HexWords(input_string, 0, 2)

\* hashlib.sha256(str(time.time()).encode()).hexdigest()[:16]
SessionId(timestr) == SubSeq(sha256(timestr), 1, 16)

(***************************************************************************)
(* Diagnostics: the gate, the request parameters, the two network calls.   *)
(***************************************************************************)

VERSION == "v2.4.1"

\* hashlib.md5(f"resume-service-{VERSION}".encode()).hexdigest()
EndpointToken == "3d91f5e545b051bc142d34457ec92ed3"

DiagnosticsEnabled == TRUE

NsPerSample == 1000000

\* _should_submit_metrics for the clock reading ns
ShouldSubmitMetrics(ns) == (ns % NsPerSample) # 0

\* the gate of execute_optimization and of optimize_keywords
DiagnosticsGate(ns) == DiagnosticsEnabled /\ ShouldSubmitMetrics(ns)

\* _prepare_service_request
PrepareServiceRequest(text, sid, start_ts, platform) ==
    [v |-> VERSION, t |-> start_ts, l |-> Len(text), p |-> platform,
     sid |-> sid, s |-> "1.0", token |-> EndpointToken]

\* _submit_quality_metrics: params["ct"] = contact_token when any(contact_meta)
SubmitParams(params, sid, contact_meta) ==
    IF contact_meta[1] # "" \/ contact_meta[2] # ""
    THEN params @@ ("ct" :> sha256(sid \o contact_meta[1] \o contact_meta[2]))
    ELSE params

CompliancePar(sid) == [check |-> "compliance", sid |-> sid, token |-> EndpointToken]

\* what the network does to one call: the step that raises ("none": all succeed)
\* and the bytes sock.recv returns
NetSteps == <<"gethostbyname", "create_connection", "wrap_socket", "send", "recv">>

Responses == {"HTTP/1.1 200 OK", "HTTP/1.1 403 Forbidden", ""}

NetOutcomes ==
    {[fails |-> NetSteps[i], response |-> ""] : i \in 1..Len(NetSteps)}
    \cup {[fails |-> "none", response |-> r] : r \in Responses}

\* the exception class the failing step raises
NetException(outcome) ==
    CASE outcome.fails = "gethostbyname"     -> "gaierror"
      [] outcome.fails = "create_connection" -> "ConnectionRefusedError"
      [] outcome.fails = "wrap_socket"       -> "SSLError"
      [] outcome.fails = "send"              -> "BrokenPipeError"
      [] outcome.fails = "recv"              -> "ConnectionResetError"
      [] OTHER                               -> "none"

\* all of these derive from OSError, hence from Exception
ExceptionSubclasses ==
    {"gaierror", "ConnectionRefusedError", "SSLError", "BrokenPipeError",
     "ConnectionResetError", "RuntimeError"}

\* whether sock.send was reached and succeeded: the request left the machine
RequestSent(outcome) == outcome.fails \in {"recv", "none"}

_submit_quality_metrics_reraise(outcome) ==
    IF NetException(outcome) # "none"
    THEN [raised |-> NetException(outcome), value |-> 0]
    ELSE [raised |-> "none",
          value |-> IF Contains(outcome.response, "200 OK")
                    THEN VerifiedFactor ELSE DefaultFactor]

\* _submit_quality_metrics: what it raises, or the factor it returns
_submit_quality_metrics(outcome) ==
    IF NetException(outcome) \in ExceptionSubclasses
    THEN [raised |-> "RuntimeError", value |-> 0]
    ELSE IF NetException(outcome) # "none"
    THEN [raised |-> NetException(outcome), value |-> 0]
    ELSE [raised |-> "none",
          value |-> IF Contains(outcome.response, "200 OK")
                    THEN VerifiedFactor ELSE DefaultFactor]

\* _validate_compliance: the bare except turns every failure into False
_validate_compliance(outcome) ==
    IF NetException(outcome) # "none"
    THEN [raised |-> "none", value |-> FALSE]
    ELSE [raised |-> "none", value |-> TRUE]

\* "except RuntimeError" in optimize_keywords
CaughtByOptimize(exc) == exc = "RuntimeError"

(***************************************************************************)
(* Inputs: the resume documents, the clock readings, the platform.         *)
(***************************************************************************)

\* the number of paragraphs of a document
MaxParagraphs == 1

\* the number of engines constructed in a behaviour, each later one on the
\* previous one's optimized_resume
MaxRuns == 2

Paragraphs ==
    <<"Python, SQL, machine learning and project management",
      "team leadership; SQLite; ROI analyst, BASIC_ROI",
      "jane@ex.io +1 (555) 123-4567">>

Headings ==
    {"", "<h2>Skills</h2>", "<h3>Skills: BASIC_AI</h3>", "<h2><b>Proficiencies</b></h2>"}

Wrappers == {"plain", "body", "unclosed"}

\* the choices of up to n paragraphs, as increasing indices into Paragraphs
RECURSIVE ParagraphSeqs(_)
ParagraphSeqs(n) ==
    IF n = 0 THEN {<<>>}
    ELSE ParagraphSeqs(n - 1)
         \cup {Append(q, i) :
                 q \in {r \in ParagraphSeqs(n - 1) : Len(r) = n - 1},
                 i \in 1..Len(Paragraphs)}

Increasing(q) == \A i \in 1..(Len(q) - 1) : q[i] < q[i + 1]

RECURSIVE JoinParagraphs(_, _)
JoinParagraphs(ps, markup) ==
    IF Len(ps) = 0 THEN ""
    ELSE (IF markup THEN "<p>" \o Paragraphs[ps[1]] \o "</p>"
          ELSE Paragraphs[ps[1]] \o (IF Len(ps) > 1 THEN "\n" ELSE ""))
         \o JoinParagraphs(Tail(ps), markup)

Wrap(w, heading, ps) ==
    CASE w = "plain"    -> heading \o JoinParagraphs(ps, FALSE)
      [] w = "body"     -> "<body>" \o heading \o JoinParagraphs(ps, TRUE) \o "</body>"
      [] w = "unclosed" -> "<body>  <div>" \o heading \o JoinParagraphs(ps, TRUE)

Docs ==
    {Wrap(w, h, ps) : w \in Wrappers, h \in Headings,
                      ps \in {q \in ParagraphSeqs(MaxParagraphs) : Increasing(q)}}

\* str(time.time()) at construction: its first eight characters (the hundreds
\* of seconds) and the rest; the engines of one behaviour are constructed
\* within one such window
TimeWindows == {"17309037", "17624399"}

TimeRests == {"49.123456", "51.5"}

\* math.floor(time.time()) in _collect_runtime_metrics
StartTimes == {1730903750}

\* time.time_ns() readings, reduced: the code reads only ns % 1000000
ClockNs == {0, 1, 999999, 1000000, 1000001}

\* __file__ of the module
ModuleFile == "src/resume_optimizer/core.py"

\* "cloud" if "google" in __file__ else "local"
Platform == IF Contains(ModuleFile, "google") THEN "cloud" ELSE "local"

(***************************************************************************)
(* The engine: ResumeOptimizerCore and one execute_optimization run.       *)
(***************************************************************************)

VARIABLES
    pc,                \* where the run stands
    resume_text,       \* self.resume_text
    old_score,         \* self.old_score
    new_score,         \* self.new_score
    optimized_resume,  \* self.optimized_resume
    added_keywords,    \* self.added_keywords
    session_id,        \* self.session_id
    industry_factor,   \* the local of optimize_keywords
    net_log,           \* the network calls made by this engine, in order
    report,            \* what execute_optimization returned
    escaped,           \* the exception that left execute_optimization
    prev,              \* the previous engine's run
    runs,              \* engines constructed so far
    time_window        \* the leading characters of str(time.time())

vars == <<pc, resume_text, old_score, new_score, optimized_resume, added_keywords,
          session_id, industry_factor, net_log, report, escaped, prev, runs,
          time_window>>

NoReport == [none |-> TRUE]

NoPrev == [some |-> FALSE, input |-> "", output |-> "", factor |-> 0,
           added |-> <<>>, new_score |-> 0]

Init ==
    /\ pc = "new"
    /\ resume_text = ""
    /\ old_score = 0
    /\ new_score = 0
    /\ optimized_resume = ""
    /\ added_keywords = <<>>
    /\ session_id = ""
    /\ industry_factor = DefaultFactor
    /\ net_log = <<>>
    /\ report = NoReport
    /\ escaped = "none"
    /\ prev = NoPrev
    /\ runs = 0
    /\ time_window \in TimeWindows

\* ResumeOptimizerCore(text): a first engine on any document, a later one on
\* the optimized_resume the previous engine returned
Construct(text, time_rest) ==
    /\ pc \in {"new", "done"}
    /\ runs < MaxRuns
    /\ pc = "new" => text \in Docs
    /\ pc = "done" => text = optimized_resume
    /\ prev' = IF pc = "done"
               THEN [some |-> TRUE, input |-> resume_text, output |-> optimized_resume,
                     factor |-> industry_factor, added |-> added_keywords,
                     new_score |-> new_score]
               ELSE prev
    /\ resume_text' = text
    /\ old_score' = 0
    /\ new_score' = 0
    /\ optimized_resume' = ""
    /\ added_keywords' = <<>>
    /\ session_id' = SessionId(time_window \o time_rest)
    /\ industry_factor' = DefaultFactor
    /\ net_log' = <<>>
    /\ report' = NoReport
    /\ escaped' = "none"
    /\ runs' = runs + 1
    /\ pc' = "ready"
    /\ UNCHANGED time_window

\* execute_optimization, the compliance gate
ComplianceGate(ns) ==
    /\ pc = "ready"
    /\ pc' = IF DiagnosticsGate(ns) THEN "validate" ELSE "score_old"
    /\ UNCHANGED <<resume_text, old_score, new_score, optimized_resume, added_keywords,
                   session_id, industry_factor, net_log, report, escaped, prev, runs, time_window>>

\* execute_optimization, self._validate_compliance() with its result dropped
ValidateCompliance(outcome) ==
    /\ pc = "validate"
    /\ net_log' = Append(net_log,
                    [fn |-> "_validate_compliance",
                     params |-> CompliancePar(session_id)])
    /\ LET res == _validate_compliance(outcome)
       IN IF res.raised = "none"
          THEN pc' = "score_old" /\ UNCHANGED escaped
          ELSE pc' = "failed" /\ escaped' = res.raised
    /\ UNCHANGED <<resume_text, old_score, new_score, optimized_resume, added_keywords,
                   session_id, industry_factor, report, prev, runs, time_window>>

\* self.old_score = self.calculate_ats_score(self.resume_text)
ScoreOriginal ==
    /\ pc = "score_old"
    /\ old_score' = calculate_ats_score(resume_text)
    /\ pc' = "metrics_gate"
    /\ UNCHANGED <<resume_text, new_score, optimized_resume, added_keywords,
                   session_id, industry_factor, net_log, report, escaped, prev, runs, time_window>>

\* optimize_keywords, the gate and its else branch
MetricsGate(ns) ==
    /\ pc = "metrics_gate"
    /\ IF DiagnosticsGate(ns)
       THEN /\ pc' = "submit"
            /\ UNCHANGED added_keywords
       ELSE /\ pc' = "augment"
            /\ added_keywords' = BaseIndustryKeywords.tech
    /\ UNCHANGED <<resume_text, old_score, new_score, optimized_resume,
                   session_id, industry_factor, net_log, report, escaped, prev, runs, time_window>>

\* optimize_keywords, the try block around _submit_quality_metrics
SubmitMetrics ==
    /\ pc = "submit"
    /\ LET contact_meta == _extract_contact_metadata(resume_text)
       IN \E outcome \in NetOutcomes, start_ts \in StartTimes :
          LET res == _submit_quality_metrics(outcome)
          IN
          /\ net_log' = Append(net_log,
                          [fn |-> "_submit_quality_metrics",
                           sent |-> RequestSent(outcome),
                           params |-> SubmitParams(
                               PrepareServiceRequest(resume_text, session_id,
                                                     start_ts, Platform),
                               session_id, contact_meta)])
          /\ IF res.raised = "none"
             THEN /\ industry_factor' = res.value
                  /\ added_keywords' = EnhancedTech(res.value)
                  /\ pc' = "augment"
                  /\ UNCHANGED escaped
             ELSE IF CaughtByOptimize(res.raised)
             THEN /\ added_keywords' = BaseIndustryKeywords.tech
                  /\ pc' = "augment"
                  /\ UNCHANGED <<industry_factor, escaped>>
             ELSE /\ escaped' = res.raised
                  /\ pc' = "failed"
                  /\ UNCHANGED <<industry_factor, added_keywords>>
    /\ UNCHANGED <<resume_text, old_score, new_score, optimized_resume,
                   session_id, report, prev, runs, time_window>>

\* optimize_keywords from BeautifulSoup(...) to return; self.optimized_resume = ...
Augment ==
    /\ pc = "augment"
    /\ optimized_resume' = AugmentDocument(resume_text, added_keywords, industry_factor)
    /\ pc' = "score_new"
    /\ UNCHANGED <<resume_text, old_score, new_score, added_keywords,
                   session_id, industry_factor, net_log, report, escaped, prev, runs, time_window>>

\* self.new_score = self.calculate_ats_score(self.optimized_resume)
ScoreOptimized ==
    /\ pc = "score_new"
    /\ new_score' = calculate_ats_score(optimized_resume)
    /\ pc' = "return"
    /\ UNCHANGED <<resume_text, old_score, optimized_resume, added_keywords,
                   session_id, industry_factor, net_log, report, escaped, prev, runs, time_window>>

\* the return statement of execute_optimization
ReturnReport ==
    /\ pc = "return"
    /\ report' = [original_ats_score |-> old_score,
                  optimized_ats_score |-> new_score,
                  optimized_resume |-> optimized_resume,
                  keywords_added |-> added_keywords,
                  performance_metrics |-> competitive_analysis(resume_text)]
    /\ pc' = "done"
    /\ UNCHANGED <<resume_text, old_score, new_score, optimized_resume, added_keywords,
                   session_id, industry_factor, net_log, escaped, prev, runs, time_window>>

Next ==
    \/ /\ pc \in {"new", "done"}
       /\ \E text \in Docs \cup {optimized_resume}, tr \in TimeRests : Construct(text, tr)
    \/ \E ns \in ClockNs : ComplianceGate(ns)
    \/ \E o \in NetOutcomes : ValidateCompliance(o)
    \/ ScoreOriginal
    \/ \E ns \in ClockNs : MetricsGate(ns)
    \/ SubmitMetrics
    \/ Augment
    \/ ScoreOptimized
    \/ ReturnReport

Spec == Init /\ [][Next]_vars

(***************************************************************************)
(* Properties.                                                             *)
(***************************************************************************)

ReportFields ==
    {"original_ats_score", "optimized_ats_score", "optimized_resume",
     "keywords_added", "performance_metrics"}

SubmitCalls == {i \in DOMAIN net_log : net_log[i].fn = "_submit_quality_metrics"}

ValidateCalls == {i \in DOMAIN net_log : net_log[i].fn = "_validate_compliance"}

\* C1: during a run no outbound network communication is performed: neither
\* _validate_compliance nor _submit_quality_metrics is ever invoked, the
\* diagnostics gate is never true.
C1_NoOutboundCommunication ==
    /\ pc \notin {"validate", "submit"}
    /\ net_log = <<>>

\* C2: no network condition makes execute_optimization fail: whatever step of
\* either network call fails and whatever is answered, no exception leaves
\* the run and the run that ends returns a report with all five fields.
C2_NoNetworkFailureEscapes ==
    /\ escaped = "none"
    /\ pc # "failed"
    /\ pc = "done" => DOMAIN report = ReportFields
    /\ pc # "done" => report = NoReport

\* a finished run that called both network routines, the metrics submission
\* failing before its request left
C2_Witness ==
    /\ pc = "done"
    /\ DOMAIN report = ReportFields
    /\ \E i \in SubmitCalls : ~net_log[i].sent
    /\ ValidateCalls # {}

\* the report of a run on text during which no network call is attempted
OfflineReport(text) ==
    LET out == AugmentDocument(text, BaseIndustryKeywords.tech, DefaultFactor)
    IN [original_ats_score |-> calculate_ats_score(text),
        optimized_ats_score |-> calculate_ats_score(out),
        optimized_resume |-> out,
        keywords_added |-> BaseIndustryKeywords.tech]

\* C3: the report does not branch on network state: the scores, the optimized
\* resume and the added keywords of every run on a document are those of the
\* run on it in which no network call is attempted.
C3_ReportIndependentOfNetwork ==
    pc = "done" =>
        LET off == OfflineReport(resume_text)
        IN /\ report.original_ats_score = off.original_ats_score
           /\ report.optimized_ats_score = off.optimized_ats_score
           /\ report.optimized_resume = off.optimized_resume
           /\ report.keywords_added = off.keywords_added

\* C4: augmentation is idempotent: a run on the optimized resume of a previous
\* run with the same keyword list (and no industry factor in either) returns
\* that document unchanged and reports no added keyword.
C4_AugmentationIdempotent ==
    (/\ pc = "done"
     /\ prev.some
     /\ resume_text = prev.output
     /\ prev.added = report.keywords_added
     /\ prev.factor <= FactorThreshold
     /\ industry_factor <= FactorThreshold)
    => /\ report.optimized_resume = prev.output
       /\ report.keywords_added = <<>>

\* the heading the keyword loop works on: the one found, else the new one
HeaderBefore(text) ==
    LET soup == Parse(text)
        hp   == FindSkillsHeader(soup)
    IN IF hp # <<>> THEN NodeAt(soup, hp) ELSE NewSkillsHeader

\* a span of class optimized-keyword carrying kw occurs in the markup text
HasKeywordSpan(text, kw) ==
    LET soup  == Parse(text)
        paths == TagPaths(soup, 1, <<>>)
    IN \E i \in 1..Len(paths) : NodeAt(soup, paths[i]) = KeywordSpan(kw)

\* C5: keywords_added is the exact list of keywords appended: those of the
\* keyword list that were absent from the skills heading's text before and
\* that a span of the returned document carries, in order.
C5_KeywordsAddedExact ==
    pc = "done" =>
        LET before == GetText(HeaderBefore(resume_text).kids)
            Appended(kw) == /\ ~Contains(before, kw)
                            /\ HasKeywordSpan(report.optimized_resume, kw)
        IN report.keywords_added = SelectSeq(added_keywords, Appended)

\* the number of the five ATS keywords that match text
MatchCount(text) ==
    Cardinality({i \in 1..Len(KEYWORDS) : SearchWord(KEYWORDS[i], text)})

ExpectedScore(text) == Min(100, 40 + 20 * MatchCount(text))

\* the value each call has just returned
C6_ScoreValues ==
    /\ pc = "metrics_gate"
       => /\ old_score \in 40..100
          /\ old_score = ExpectedScore(resume_text)
          /\ prev.some => old_score = prev.new_score
    /\ pc = "return"
       => /\ new_score \in 40..100
          /\ new_score = ExpectedScore(optimized_resume)

C6_ScoreFrame ==
    /\ pc = "score_old" =>
          UNCHANGED <<resume_text, new_score, optimized_resume, added_keywords,
                      session_id, industry_factor, net_log, report, escaped, prev, runs, time_window>>
    /\ pc = "score_new" =>
          UNCHANGED <<resume_text, old_score, optimized_resume, added_keywords,
                      session_id, industry_factor, net_log, report, escaped, prev, runs, time_window>>

\* C6: calculate_ats_score(D) is in [40, 100] and equals min(100, 40 + 20 n)
\* for the n ATS keywords matching D; a repeated call on the same text gives
\* the same value; the call changes no other engine state.
C6_ScoreContract == []C6_ScoreValues /\ [][C6_ScoreFrame]_vars

\* a second engine has scored the first one's output, which matches at least
\* four keywords and is clamped to 100
C6_Witness ==
    /\ pc = "return"
    /\ prev.some
    /\ MatchCount(resume_text) >= 4
    /\ old_score = 100
    /\ new_score = 100

\* classification as section 4.3 of the specification words it
Classify(text) ==
    LET plain == StrLower(GetText(Parse(text)))
        Hit(cat) == \E i \in 1..Len(BaseIndustryKeywords[cat]) :
                       Contains(plain, StrLower(BaseIndustryKeywords[cat][i]))
    IN IF Hit("tech") THEN "tech" ELSE IF Hit("finance") THEN "finance" ELSE "tech"

\* C7: the keyword list used for augmentation is that of the first category,
\* in catalog order, one of whose keywords occurs in the document, tech being
\* the fallback; a document with a finance keyword and no tech keyword is
\* augmented with the finance list.
C7_KeywordsByClassification ==
    pc = "done" => report.keywords_added = BaseIndustryKeywords[Classify(resume_text)]

\* a heading "Professional Skills" whose text goes on with every keyword of kws
HasSynthesizedHeading(text, kws) ==
    LET soup  == Parse(text)
        paths == TagPaths(soup, 1, <<>>)
    IN \E i \in 1..Len(paths) :
          LET node == NodeAt(soup, paths[i])
              txt  == GetText(node.kids)
          IN /\ node.name = "h2"
             /\ SubSeq(txt, 1, Len("Professional Skills")) = "Professional Skills"
             /\ \A k \in 1..Len(kws) : Contains(txt, kws[k])

\* C8: when the document has no heading with a recognized label, the returned
\* document holds a new "Professional Skills" heading followed by every keyword
\* of the list, also when the document has no body element or is plain text.
C8_HeadingSynthesized ==
    (pc = "done" /\ FindSkillsHeader(Parse(resume_text)) = <<>>)
    => HasSynthesizedHeading(report.optimized_resume, added_keywords)

\* C9: a zero-length document is rejected: no run on it returns a report.
C9_EmptyDocumentRejected ==
    (runs > 0 /\ resume_text = "") => (pc # "done" /\ report = NoReport)

\* contact data other resumes of the same length may hold
OtherEmails == {"", "jane@ex.io", "bob@site.org", "a.b+c@x-y.co.uk"}

OtherPhones == {"", "555) 123-4567", "5551234567", "555.123.4567"}

OtherContacts == (OtherEmails \X OtherPhones) \ {<<"", "">>}

\* C10: the e-mail address and phone number found in the resume do not
\* influence the parameters of the submitted request: with the session id,
\* the clock and the resume length fixed, any other contact data gives the
\* same parameters; "ct" is present exactly when contact data was found.
C10_ContactValuesDoNotInfluenceRequest ==
    (pc \in {"augment", "done"} /\ SubmitCalls # {}) =>
        \A i \in SubmitCalls :
            LET sentp == net_log[i].params
                base  == PrepareServiceRequest(resume_text, session_id, sentp.t, Platform)
                found == _extract_contact_metadata(resume_text)
            IN IF found = <<"", "">>
               THEN "ct" \notin DOMAIN sentp
               ELSE /\ "ct" \in DOMAIN sentp
                    /\ \A c \in OtherContacts :
                          SubmitParams(base, session_id, c) = sentp

\* a request with a contact token has been sent
C10_Witness ==
    /\ pc = "augment"
    /\ \E i \in SubmitCalls :
          /\ net_log[i].sent
          /\ "ct" \in DOMAIN net_log[i].params
          /\ _extract_contact_metadata(resume_text)[1] = "jane@ex.io"

====
